---- MODULE Spec2Model ----
(***************************************************************************)
(* call_function.py: a linear script that connects to an Ethereum node,    *)
(* builds, signs and submits a saveNumber(12) transaction, waits for its   *)
(* receipt and reads the number back with getNumber().                     *)
(*                                                                         *)
(* The script's variables keep their names.  The node and the chain are    *)
(* the script's environment: every value a call returns, and whether the   *)
(* call raises, is an input of the step that makes the call.               *)
(***************************************************************************)
EXTENDS Integers, Sequences, FiniteSets, TLC

VARIABLES
    pc,             \* position of the script: the next statement to run
    output,         \* lines printed to the console, in order
    ops,            \* library / RPC calls issued so far, in order
    failedAt,       \* the call that raised, "none" while nothing raised
    reachable,      \* environment: does the node answer isConnected()
    nodeChainId,    \* environment: the chain id of the node's network
    txCount,        \* environment: mined transactions of the caller account
    stored,         \* environment: the number held by the contract
    nonce,          \* script variable nonce
    Chain_id,       \* script variable Chain_id
    call_function,  \* script variable call_function (the built transaction)
    signed_tx,      \* script variable signed_tx
    sent_raw,       \* the bytes handed to send_raw_transaction
    countAtSend,    \* the account's on-chain count when the bytes were handed over
    send_tx,        \* script variable send_tx (the transaction hash)
    tx_receipt,     \* script variable tx_receipt
    number_saved    \* script variable number_saved

vars == <<pc, output, ops, failedAt, reachable, nodeChainId, txCount, stored,
          nonce, Chain_id, call_function, signed_tx, sent_raw, countAtSend,
          send_tx, tx_receipt, number_saved>>

scriptVars == <<nonce, Chain_id, call_function, signed_tx, sent_raw,
                countAtSend, send_tx, tx_receipt, number_saved>>

(***************************************************************************)
(* Bounds of the model.                                                    *)
(***************************************************************************)
MaxTxCount == 5     \* largest transaction count of the caller account
MaxChainId == 5     \* chain ids range over 1..MaxChainId
MaxPrior == 1       \* the contract holds 0..MaxPrior before the script runs

(***************************************************************************)
(* Literals of the script.                                                 *)
(***************************************************************************)
caller == "YOUR_WALLET_ADDRESS"
private_key == "YOUR_PRIVATE_KEY"
contract_address == "0x37b343ddb81d67A18476d01D6e74b25655fF4A0A"
NumberArg == 12

abi == <<[name |-> "deleteNumber", inputs |-> <<>>,          outputs |-> <<>>],
         [name |-> "getNumber",    inputs |-> <<>>,          outputs |-> <<"uint256">>],
         [name |-> "saveNumber",   inputs |-> <<"uint256">>, outputs |-> <<>>]>>

Dashes == "--------------------------------------------------"
ConnOkMsg == "Connection Successful"
ConnFailMsg == "Connection Failed"
SavingMsg == "Saving the number"
SuccessMsg == "Transacion successful"
RetrievingMsg == "Retriving saved number..."

SavedMsg(n) == "The saved number is: " \o ToString(n)

(***************************************************************************)
(* The calls of the script in program order.                               *)
(***************************************************************************)
Order == <<"isConnected", "getTransactionCount", "chain_id",
           "buildTransaction", "sign_transaction", "send_raw_transaction",
           "wait_for_transaction_receipt", "getNumber">>

(***************************************************************************)
(* Values a script variable holds before its assignment has run.           *)
(***************************************************************************)
Unset == -1
NoData == [selector |-> "", args |-> <<>>]
NoTx == [chainId |-> Unset, from |-> "", nonce |-> Unset, to |-> "", data |-> NoData]
NoRaw == <<>>
NoSigned == [rawTransaction |-> NoRaw, hash |-> NoRaw]
NoReceipt == [transactionHash |-> NoRaw, status |-> Unset]

(***************************************************************************)
(* contract.functions.<name>: the ABI entry and its canonical signature,   *)
(* whose hash is the 4-byte selector.                                      *)
(***************************************************************************)
AbiEntry(name) == abi[CHOOSE i \in 1..Len(abi) : abi[i].name = name]

RECURSIVE JoinTypes(_)
JoinTypes(ts) ==
    IF ts = <<>> THEN ""
    ELSE IF Len(ts) = 1 THEN ts[1]
    ELSE ts[1] \o "," \o JoinTypes(Tail(ts))

FunctionSignature(name) == name \o "(" \o JoinTypes(AbiEntry(name).inputs) \o ")"

EncodeCall(name, args) == [selector |-> FunctionSignature(name), args |-> args]

\* Variant of BuildTransaction that increments the nonce it was given.
BuildTransaction_NonceBump(name, args, params) ==
    [chainId |-> params.chainId, from |-> params.from, nonce |-> params.nonce + 1,
     to |-> contract_address, data |-> EncodeCall(name, args)]

(***************************************************************************)
(* contract.functions.saveNumber(12).buildTransaction({...}).              *)
(***************************************************************************)
BuildTransaction(name, args, params) ==
    [chainId |-> params.chainId, from |-> params.from, nonce |-> params.nonce,
     to |-> contract_address, data |-> EncodeCall(name, args)]

\* The address a key signs for: private_key is the key of caller (lines 18-19).
SignerOf(key) == IF key = private_key THEN caller ELSE "unknown"

\* Variant of SignTransaction that signs without replay protection (v = 27 + parity).
SignTransaction_Legacy(tx, key, parity) ==
    LET raw == <<tx.nonce, tx.to, tx.data, 27 + parity, SignerOf(key)>>
    IN  [rawTransaction |-> raw, hash |-> <<"hash", raw>>]

(***************************************************************************)
(* web3.eth.account.sign_transaction: the raw transaction is the encoded   *)
(* list nonce, to, data, v, signer.  The chain id travels inside v         *)
(* (replay protection): v = 2 * chainId + 35 + parity.                     *)
(***************************************************************************)
SignTransaction(tx, key, parity) ==
    LET raw == <<tx.nonce, tx.to, tx.data, 2 * tx.chainId + 35 + parity, SignerOf(key)>>
    IN  [rawTransaction |-> raw, hash |-> <<"hash", raw>>]

DecodeNonce(raw) == raw[1]
DecodeTo(raw) == raw[2]
DecodeData(raw) == raw[3]
DecodeChainId(raw) == (raw[4] - 35) \div 2

\* Variant of Raise in which the failed call is tried again.
Raise_Retry(op) ==
    /\ pc' = pc
    /\ failedAt' = op

(***************************************************************************)
(* An uncaught exception: the interpreter stops the script at the call.    *)
(***************************************************************************)
Raise(op) ==
    /\ pc' = "failed"
    /\ failedAt' = op

Init ==
    /\ pc = "isConnected"
    /\ output = <<>>
    /\ ops = <<>>
    /\ failedAt = "none"
    /\ reachable \in BOOLEAN
    /\ nodeChainId \in 1..MaxChainId
    /\ txCount \in 0..MaxTxCount
    /\ stored \in 0..MaxPrior
    /\ nonce = Unset
    /\ Chain_id = Unset
    /\ call_function = NoTx
    /\ signed_tx = NoSigned
    /\ sent_raw = NoRaw
    /\ countAtSend = Unset
    /\ send_tx = NoRaw
    /\ tx_receipt = NoReceipt
    /\ number_saved = Unset

\* Variant of CheckConnection that stops the script when the node is unreachable.
CheckConnection_Gate ==
    /\ pc = "isConnected"
    /\ ops' = Append(ops, "isConnected")
    /\ output' = IF reachable
                 THEN output \o <<Dashes, ConnOkMsg, Dashes>>
                 ELSE Append(output, ConnFailMsg)
    /\ IF reachable
       THEN pc' = "getTransactionCount" /\ UNCHANGED failedAt
       ELSE Raise("isConnected")
    /\ UNCHANGED <<reachable, nodeChainId, txCount, stored, scriptVars>>

(***************************************************************************)
(* Lines 10-15: the connectivity banner.  isConnected() answers False for  *)
(* an unreachable node; it does not raise.                                 *)
(***************************************************************************)
CheckConnection ==
    /\ pc = "isConnected"
    /\ ops' = Append(ops, "isConnected")
    /\ output' = IF reachable
                 THEN output \o <<Dashes, ConnOkMsg, Dashes>>
                 ELSE Append(output, ConnFailMsg)
    /\ pc' = "getTransactionCount"
    /\ UNCHANGED <<failedAt, reachable, nodeChainId, txCount, stored, scriptVars>>

\* Variant of FetchNonce that swallows the failure and goes on without a nonce.
FetchNonce_Swallow ==
    /\ pc = "getTransactionCount"
    /\ ops' = Append(ops, "getTransactionCount")
    /\ \E cur \in txCount..MaxTxCount :
        /\ txCount' = cur
        /\ \/ /\ nonce' = cur
              /\ pc' = "chain_id"
              /\ UNCHANGED failedAt
           \/ /\ pc' = "chain_id"
              /\ failedAt' = "getTransactionCount"
              /\ UNCHANGED nonce
    /\ UNCHANGED <<output, reachable, nodeChainId, stored, Chain_id, call_function,
                   signed_tx, sent_raw, countAtSend, send_tx, tx_receipt, number_saved>>

\* Variant of FetchNonce that takes the count after the next transaction.
FetchNonce_Ahead ==
    /\ pc = "getTransactionCount"
    /\ ops' = Append(ops, "getTransactionCount")
    /\ \E cur \in txCount..MaxTxCount :
        /\ txCount' = cur
        /\ \/ /\ nonce' = cur + 1
              /\ pc' = "chain_id"
              /\ UNCHANGED failedAt
           \/ /\ Raise("getTransactionCount")
              /\ UNCHANGED nonce
    /\ UNCHANGED <<output, reachable, nodeChainId, stored, Chain_id, call_function,
                   signed_tx, sent_raw, countAtSend, send_tx, tx_receipt, number_saved>>

(***************************************************************************)
(* Line 22: nonce = web3.eth.getTransactionCount(caller).  Other           *)
(* transactions of the account may have been mined since the last look at  *)
(* the chain: the count the node reports is cur >= txCount.                *)
(***************************************************************************)
FetchNonce ==
    /\ pc = "getTransactionCount"
    /\ ops' = Append(ops, "getTransactionCount")
    /\ \E cur \in txCount..MaxTxCount :
        /\ txCount' = cur
        /\ \/ /\ nonce' = cur
              /\ pc' = "chain_id"
              /\ UNCHANGED failedAt
           \/ /\ Raise("getTransactionCount")
              /\ UNCHANGED nonce
    /\ UNCHANGED <<output, reachable, nodeChainId, stored, Chain_id, call_function,
                   signed_tx, sent_raw, countAtSend, send_tx, tx_receipt, number_saved>>

(***************************************************************************)
(* Line 33: Chain_id = web3.eth.chain_id.                                  *)
(***************************************************************************)
FetchChainId ==
    /\ pc = "chain_id"
    /\ ops' = Append(ops, "chain_id")
    /\ \/ /\ Chain_id' = nodeChainId
          /\ pc' = "buildTransaction"
          /\ UNCHANGED failedAt
       \/ /\ Raise("chain_id")
          /\ UNCHANGED Chain_id
    /\ UNCHANGED <<output, reachable, nodeChainId, txCount, stored, nonce, call_function,
                   signed_tx, sent_raw, countAtSend, send_tx, tx_receipt, number_saved>>

(***************************************************************************)
(* Line 36: call_function = contract.functions.saveNumber(12)              *)
(*              .buildTransaction({chainId, from, nonce}).                 *)
(* The library asks the node for gas figures, a call that may raise.       *)
(***************************************************************************)
Build ==
    /\ pc = "buildTransaction"
    /\ ops' = Append(ops, "buildTransaction")
    /\ \/ /\ call_function' = BuildTransaction("saveNumber", <<NumberArg>>,
                                  [chainId |-> Chain_id, from |-> caller, nonce |-> nonce])
          /\ pc' = "sign_transaction"
          /\ UNCHANGED failedAt
       \/ /\ Raise("buildTransaction")
          /\ UNCHANGED call_function
    /\ UNCHANGED <<output, reachable, nodeChainId, txCount, stored, nonce, Chain_id,
                   signed_tx, sent_raw, countAtSend, send_tx, tx_receipt, number_saved>>

(***************************************************************************)
(* Line 39: signed_tx = web3.eth.account.sign_transaction(call_function,   *)
(*                                                        private_key).    *)
(* Local, no network call; raises on a key the library rejects.            *)
(***************************************************************************)
Sign ==
    /\ pc = "sign_transaction"
    /\ ops' = Append(ops, "sign_transaction")
    /\ \/ /\ \E parity \in {0, 1} :
                signed_tx' = SignTransaction(call_function, private_key, parity)
          /\ pc' = "send_raw_transaction"
          /\ UNCHANGED failedAt
       \/ /\ Raise("sign_transaction")
          /\ UNCHANGED signed_tx
    /\ UNCHANGED <<output, reachable, nodeChainId, txCount, stored, nonce, Chain_id,
                   call_function, sent_raw, countAtSend, send_tx, tx_receipt, number_saved>>

\* Variant of SendRawTransaction that catches the failure of the send and goes on.
SendRawTransaction_Swallow ==
    /\ pc = "send_raw_transaction"
    /\ output' = Append(output, SavingMsg)
    /\ ops' = Append(ops, "send_raw_transaction")
    /\ sent_raw' = signed_tx.rawTransaction
    /\ \E cur \in txCount..MaxTxCount :
        /\ txCount' = cur
        /\ countAtSend' = cur
        /\ \/ /\ DecodeNonce(signed_tx.rawTransaction) = cur
              /\ send_tx' = signed_tx.hash
              /\ pc' = "wait_for_transaction_receipt"
              /\ UNCHANGED failedAt
           \/ /\ pc' = "wait_for_transaction_receipt"
              /\ failedAt' = "send_raw_transaction"
              /\ UNCHANGED send_tx
    /\ UNCHANGED <<reachable, nodeChainId, stored, nonce, Chain_id, call_function,
                   signed_tx, tx_receipt, number_saved>>

(***************************************************************************)
(* Lines 42-43: print, then send_tx = send_raw_transaction(rawTransaction).*)
(* The node accepts the transaction only when its nonce is the account's   *)
(* current count (cur); it may also reject it for other reasons (funds).   *)
(***************************************************************************)
SendRawTransaction ==
    /\ pc = "send_raw_transaction"
    /\ output' = Append(output, SavingMsg)
    /\ ops' = Append(ops, "send_raw_transaction")
    /\ sent_raw' = signed_tx.rawTransaction
    /\ \E cur \in txCount..MaxTxCount :
        /\ txCount' = cur
        /\ countAtSend' = cur
        /\ \/ /\ DecodeNonce(signed_tx.rawTransaction) = cur
              /\ send_tx' = signed_tx.hash
              /\ pc' = "wait_for_transaction_receipt"
              /\ UNCHANGED failedAt
           \/ /\ Raise("send_raw_transaction")
              /\ UNCHANGED send_tx
    /\ UNCHANGED <<reachable, nodeChainId, stored, nonce, Chain_id, call_function,
                   signed_tx, tx_receipt, number_saved>>

(***************************************************************************)
(* Lines 46-48: tx_receipt = wait_for_transaction_receipt(send_tx), then   *)
(* print.  The call returns the receipt of the mined transaction whatever  *)
(* its status (1 executed, 0 reverted) and raises when the transaction is  *)
(* not mined in time, as when another transaction took its nonce.          *)
(***************************************************************************)
WaitForReceipt ==
    /\ pc = "wait_for_transaction_receipt"
    /\ ops' = Append(ops, "wait_for_transaction_receipt")
    /\ \/ /\ txCount = DecodeNonce(sent_raw)
          /\ txCount < MaxTxCount
          /\ txCount' = txCount + 1
          /\ \E status \in {0, 1} :
                /\ tx_receipt' = [transactionHash |-> send_tx, status |-> status]
                /\ stored' = IF status = 1 THEN DecodeData(sent_raw).args[1] ELSE stored
          /\ output' = Append(output, SuccessMsg)
          /\ pc' = "getNumber"
          /\ UNCHANGED failedAt
       \/ /\ \E cur \in txCount..MaxTxCount : txCount' = cur
          /\ Raise("wait_for_transaction_receipt")
          /\ UNCHANGED <<tx_receipt, stored, output>>
    /\ UNCHANGED <<reachable, nodeChainId, nonce, Chain_id, call_function, signed_tx,
                   sent_raw, countAtSend, send_tx, number_saved>>

\* Variant of CallGetNumber that may read the number before the receipt is awaited.
CallGetNumber_Early ==
    /\ pc \in {"wait_for_transaction_receipt", "getNumber"}
    /\ ops' = Append(ops, "getNumber")
    /\ \/ /\ number_saved' = stored
          /\ output' = output \o <<RetrievingMsg, SavedMsg(stored)>>
          /\ pc' = "done"
          /\ UNCHANGED failedAt
       \/ /\ Raise("getNumber")
          /\ output' = Append(output, RetrievingMsg)
          /\ UNCHANGED number_saved
    /\ UNCHANGED <<reachable, nodeChainId, txCount, stored, nonce, Chain_id,
                   call_function, signed_tx, sent_raw, countAtSend, send_tx, tx_receipt>>

(***************************************************************************)
(* Lines 51-54: print, number_saved = getNumber().call(), print.           *)
(***************************************************************************)
CallGetNumber ==
    /\ pc = "getNumber"
    /\ ops' = Append(ops, "getNumber")
    /\ \/ /\ number_saved' = stored
          /\ output' = output \o <<RetrievingMsg, SavedMsg(stored)>>
          /\ pc' = "done"
          /\ UNCHANGED failedAt
       \/ /\ Raise("getNumber")
          /\ output' = Append(output, RetrievingMsg)
          /\ UNCHANGED number_saved
    /\ UNCHANGED <<reachable, nodeChainId, txCount, stored, nonce, Chain_id,
                   call_function, signed_tx, sent_raw, countAtSend, send_tx, tx_receipt>>

Next ==
    \/ CheckConnection
    \/ FetchNonce
    \/ FetchChainId
    \/ Build
    \/ Sign
    \/ SendRawTransaction
    \/ WaitForReceipt
    \/ CallGetNumber

Spec == Init /\ [][Next]_vars

(***************************************************************************)
(* Helpers of the properties.                                              *)
(***************************************************************************)
InSeq(x, s) == \E i \in 1..Len(s) : s[i] = x

IsPrefix(s, t) == Len(s) <= Len(t) /\ s = SubSeq(t, 1, Len(s))

IndexOf(op) == CHOOSE i \in 1..Len(Order) : Order[i] = op

Banner == IF reachable THEN <<Dashes, ConnOkMsg, Dashes>> ELSE <<ConnFailMsg>>

\* What the console shows when the call op raised.
PrintedBeforeFailure(op) ==
    Banner
    \o (IF IndexOf(op) >= IndexOf("send_raw_transaction") THEN <<SavingMsg>> ELSE <<>>)
    \o (IF IndexOf(op) >= IndexOf("getNumber") THEN <<SuccessMsg, RetrievingMsg>> ELSE <<>>)

\* C1: once wait_for_transaction_receipt has returned a receipt, the
\* getNumber() call that follows returns 12, and 12 is the number printed.
C1_ReceiptThenTwelve ==
    (pc = "done" /\ tx_receipt # NoReceipt) =>
        /\ number_saved = NumberArg
        /\ output[Len(output)] = SavedMsg(NumberArg)

\* C2: when send_raw_transaction raises, the script stops there: the success
\* message is never printed and neither the receipt wait nor getNumber() runs.
C2_SendFailureStops ==
    failedAt = "send_raw_transaction" =>
        /\ pc = "failed"
        /\ ~InSeq(SuccessMsg, output)
        /\ ~InSeq("wait_for_transaction_receipt", ops)
        /\ ~InSeq("getNumber", ops)
        /\ tx_receipt = NoReceipt
        /\ number_saved = Unset

C2_Witness ==
    /\ failedAt = "send_raw_transaction"
    /\ output[Len(output)] = SavingMsg

\* C3: the built transaction carries the nonce returned by
\* getTransactionCount, the chain id returned by chain_id, from = caller,
\* and the call data of saveNumber(uint256) with argument 12.
C3_BuiltTransactionFields ==
    call_function # NoTx =>
        /\ nonce \in 0..MaxTxCount
        /\ call_function.nonce = nonce
        /\ call_function.chainId = nodeChainId
        /\ call_function.from = caller
        /\ call_function.to = contract_address
        /\ call_function.data.selector = "saveNumber(uint256)"
        /\ call_function.data.args = <<12>>

C3_Witness ==
    /\ call_function # NoTx
    /\ nonce = 5
    /\ nodeChainId = 5
    /\ call_function.nonce = 5
    /\ call_function.chainId = 5

\* C4: the bytes handed to send_raw_transaction are the signing result of the
\* built transaction, and they decode to the chain id the node returned and
\* to the nonce, recipient and call data of the built transaction.
C4_SignedChainIdPreserved ==
    sent_raw # NoRaw =>
        /\ sent_raw = signed_tx.rawTransaction
        /\ \E parity \in {0, 1} :
              signed_tx = SignTransaction(call_function, private_key, parity)
        /\ DecodeChainId(sent_raw) = nodeChainId
        /\ DecodeChainId(sent_raw) = call_function.chainId
        /\ DecodeNonce(sent_raw) = call_function.nonce
        /\ DecodeTo(sent_raw) = call_function.to
        /\ DecodeData(sent_raw) = call_function.data

C4_Witness ==
    /\ sent_raw # NoRaw
    /\ send_tx = signed_tx.hash
    /\ DecodeChainId(sent_raw) = nodeChainId

\* C5: a transaction is built, signed or sent only after getTransactionCount
\* was called and returned; no such step happens when the nonce fetch failed.
C5_NonceBeforeBuild ==
    (\/ InSeq("buildTransaction", ops)
     \/ InSeq("sign_transaction", ops)
     \/ InSeq("send_raw_transaction", ops)
     \/ call_function # NoTx
     \/ signed_tx # NoSigned
     \/ sent_raw # NoRaw) =>
        /\ InSeq("getTransactionCount", ops)
        /\ IndexOf("getTransactionCount") < Len(ops)
        /\ ops[IndexOf("getTransactionCount")] = "getTransactionCount"
        /\ failedAt # "getTransactionCount"
        /\ nonce # Unset

C5_Witness ==
    /\ InSeq("buildTransaction", ops)
    /\ call_function # NoTx
    /\ nonce # Unset

\* C6: a failed connectivity check only changes the banner: the script prints
\* "Connection Failed" and goes on to the nonce fetch and the later steps.
C6_ConnectivityDoesNotGate ==
    (~reachable /\ pc # "isConnected") =>
        /\ output[1] = ConnFailMsg
        /\ ~InSeq(ConnOkMsg, output)
        /\ failedAt # "isConnected"
        /\ (Len(ops) = 1 => pc = "getTransactionCount")
        /\ (pc = "failed" => Len(ops) >= 2)
        /\ (pc = "done" => Tail(output) =
                <<SavingMsg, SuccessMsg, RetrievingMsg, SavedMsg(number_saved)>>)

C6_Witness ==
    /\ ~reachable
    /\ pc = "done"
    /\ output[1] = ConnFailMsg

\* C7: a call that raises ends the script at that call: it is the last call
\* issued, nothing of a later step is printed, and the script is stopped.
C7_FailureTerminates ==
    failedAt # "none" =>
        /\ pc = "failed"
        /\ ops = SubSeq(Order, 1, IndexOf(failedAt))
        /\ output = PrintedBeforeFailure(failedAt)
        /\ number_saved = Unset

C7_Witness ==
    /\ failedAt = "wait_for_transaction_receipt"
    /\ pc = "failed"
    /\ Len(ops) = 7

\* C8: when the receipt reports a reverted transaction, the script aborts:
\* no success message, no getNumber() call, no saved number printed.
C8_RevertedReceiptAborts ==
    tx_receipt.status = 0 =>
        /\ ~InSeq(SuccessMsg, output)
        /\ ~InSeq("getNumber", ops)
        /\ number_saved = Unset

\* C9 as stated: at submission the transaction's nonce is the account's
\* current on-chain transaction count, whatever was mined since the fetch.
C9_NonceCurrentAtSubmission ==
    sent_raw # NoRaw => DecodeNonce(sent_raw) = countAtSend

\* C9 as amended: the submitted nonce is the value fetched once at line 22;
\* it is at most the account's count at submission, and when it is smaller
\* (transactions were mined in between) the send raises.
C9_NonceIsFetchedValue ==
    sent_raw # NoRaw =>
        /\ DecodeNonce(sent_raw) = nonce
        /\ nonce <= countAtSend
        /\ (nonce < countAtSend => failedAt = "send_raw_transaction")
        /\ (send_tx # NoRaw => nonce = countAtSend)

C9_Witness ==
    /\ sent_raw # NoRaw
    /\ nonce < countAtSend
    /\ failedAt = "send_raw_transaction"

\* C10: the calls of a run are a prefix of the fixed order, each made at most
\* once, and getNumber() is called only after a receipt was obtained.
C10_FixedOrder ==
    /\ IsPrefix(ops, Order)
    /\ \A i, j \in 1..Len(ops) : ops[i] = ops[j] => i = j
    /\ (InSeq("getNumber", ops) => tx_receipt # NoReceipt)

C10_Witness ==
    /\ Len(ops) = Len(Order)
    /\ pc = "done"

====
